---------------------------- MODULE Spec2Model ----------------------------
(***************************************************************************)
(* Model of the BLEU / chrF scoring core of                                *)
(* src/JoeyNMT/joeynmt/external_metrics/sacrebleu.py.                      *)
(*                                                                         *)
(* Strings are sequences of one-character strings over the alphabet        *)
(* {"a", "b", " "}.  A Counter is a function from its keys to positive     *)
(* counts; a missing key reads as 0.  Python's None is the string "None".  *)
(* Floating point values are modelled exactly: a quotient is a pair        *)
(* [num, den], exp and log are kept symbolic.                              *)
(***************************************************************************)
EXTENDS Integers, Sequences, FiniteSets, TLC

VARIABLES fn,    \* the entry point that was called
          args,  \* its arguments, "None" before the call
          pc,    \* "idle" | "called" | "loop" | "done" | "raised"
          pos,   \* number of line tuples taken from the zipped streams
          acc,   \* the local accumulators of the running call
          ret,   \* the returned value, "None" before the return
          exc    \* the raised exception, "None" when none was raised

vars == <<fn, args, pc, pos, acc, ret, exc>>

None == "None"
\* None in a variable that otherwise holds a length or a length difference
NoneLen == -1

-----------------------------------------------------------------------------
(* Bounds of the model                                                     *)

MaxTokens == 4      \* tokens per segment
MaxRefs == 2        \* reference strings / reference streams per call
MaxSegs == 2        \* segments per stream
MaxCount == 2       \* an n-gram count handed to compute_bleu directly
MaxLen == 2         \* a corpus length handed to compute_bleu directly
MaxOrder == 2       \* the character n-gram order handed to chrF
MaxDen == 4         \* the denominator of an average handed to _chrf directly

(* Program constants                                                       *)

NGRAM_ORDER == 4

-----------------------------------------------------------------------------
(* Strings                                                                 *)

Letters == {"a", "b"}
Whitespace == {" "}

Max(a, b) == IF a >= b THEN a ELSE b
Min(a, b) == IF a <= b THEN a ELSE b
Abs(a) == IF a < 0 THEN -a ELSE a

SeqsUpTo(S, n) == UNION {[1..k -> S] : k \in 0..n}
NonEmptySeqsUpTo(S, n) == UNION {[1..k -> S] : k \in 1..n}

RECURSIVE SplitRec(_, _, _)
SplitRec(s, cur, out) ==
    IF s = <<>>
    THEN IF cur = <<>> THEN out ELSE Append(out, cur)
    ELSE IF Head(s) \in Whitespace
         THEN SplitRec(Tail(s), <<>>, IF cur = <<>> THEN out ELSE Append(out, cur))
         ELSE SplitRec(Tail(s), Append(cur, Head(s)), out)

\* str.split(): the maximal runs of non-whitespace characters
split(s) == SplitRec(s, <<>>, <<>>)

RECURSIVE join(_)
\* " ".join(tokens)
join(tokens) ==
    IF tokens = <<>> THEN <<>>
    ELSE IF Len(tokens) = 1 THEN tokens[1]
    ELSE tokens[1] \o <<" ">> \o join(Tail(tokens))

\* str.lower(): "A" is the one upper-case letter of the model
lower(s) == [i \in 1..Len(s) |-> IF s[i] = "A" THEN "a" ELSE s[i]]

RECURSIVE rstrip(_)
\* str.rstrip()
rstrip(s) ==
    IF s = <<>> THEN s
    ELSE IF s[Len(s)] \in Whitespace THEN rstrip(SubSeq(s, 1, Len(s) - 1))
    ELSE s

\* tokenize_13a on a line of letters and blanks: no marker, entity or
\* punctuation rule changes a letter, the blanks it adds are collapsed and
\* the ends are trimmed
tokenize_13a(line) == join(split(line))

\* TOKENIZERS[name]
TOKENIZERS(name, line) ==
    IF name = "13a" THEN tokenize_13a(line) ELSE line

\* The segments of the model: at most MaxTokens one-letter tokens, "a"s
\* followed by "b"s, joined by single blanks
TokenSeqs ==
    {[i \in 1..(na + nb) |-> IF i <= na THEN <<"a">> ELSE <<"b">>] :
        na \in 0..MaxTokens, nb \in 0..MaxTokens}
Segments == {join(ts) : ts \in {t \in TokenSeqs : Len(t) <= MaxTokens}}
\* the segments written with the letter "a" only
PlainSegments == {s \in Segments : \A i \in 1..Len(s) : s[i] # "b"}

-----------------------------------------------------------------------------
(* Counters and n-grams                                                    *)

CounterGet(c, k) == IF k \in DOMAIN c THEN c[k] ELSE 0

EmptyCounter == [k \in {} |-> 0]

\* a mutant of extract_ngrams: the 4-grams are left out
extract_ngrams_short(line) ==
    LET tokens == split(line)
        windows == {w \in (1..(NGRAM_ORDER - 1)) \X (1..Len(tokens)) :
                       w[2] + w[1] - 1 <= Len(tokens)}
        key == [w \in windows |-> join(SubSeq(tokens, w[2], w[2] + w[1] - 1))]
    IN  [k \in {key[w] : w \in windows} |->
            Cardinality({w \in windows : key[w] = k})]

\* extract_ngrams(line) with the default min_order = 1, max_order = NGRAM_ORDER
extract_ngrams(line) ==
    LET tokens == split(line)
        windows == {w \in (1..NGRAM_ORDER) \X (1..Len(tokens)) :
                       w[2] + w[1] - 1 <= Len(tokens)}
        key == [w \in windows |-> join(SubSeq(tokens, w[2], w[2] + w[1] - 1))]
    IN  [k \in {key[w] : w \in windows} |->
            Cardinality({w \in windows : key[w] = k})]

\* a mutant of merge_count: the counts of the references are added
merge_count_sum(old, new) == old + new

\* ngrams[ngram] = max(ngrams[ngram], ngrams_ref[ngram])
merge_count(old, new) == Max(old, new)

\* a mutant of closest: a tie keeps the length seen first
closest_first(cur, diff, reflen) ==
    IF cur.closest_diff = NoneLen \/ diff < cur.closest_diff
    THEN [closest_diff |-> diff, closest_len |-> reflen]
    ELSE cur

\* the update of closest_diff / closest_len for one reference
closest(cur, diff, reflen) ==
    IF cur.closest_diff = NoneLen \/ diff < cur.closest_diff
    THEN [closest_diff |-> diff, closest_len |-> reflen]
    ELSE IF diff = cur.closest_diff /\ reflen < cur.closest_len
         THEN [cur EXCEPT !.closest_len = reflen]
         ELSE cur

\* a mutant of ref_stats_iter: the counts of the reference replace the merged
\* ones
ref_stats_iter_last(st, output, ref) ==
    LET tokens == split(ref)
        reflen == Len(tokens)
        diff == Abs(Len(split(output)) - reflen)
        cl == closest([closest_diff |-> st.closest_diff,
                       closest_len |-> st.closest_len], diff, reflen)
    IN  [ngrams |-> extract_ngrams(ref),
         closest_diff |-> cl.closest_diff,
         closest_len |-> cl.closest_len]

\* one iteration of the loop of ref_stats
ref_stats_iter(st, output, ref) ==
    LET tokens == split(ref)
        reflen == Len(tokens)
        diff == Abs(Len(split(output)) - reflen)
        cl == closest([closest_diff |-> st.closest_diff,
                       closest_len |-> st.closest_len], diff, reflen)
        ngrams_ref == extract_ngrams(ref)
    IN  [ngrams |-> [k \in DOMAIN st.ngrams \cup DOMAIN ngrams_ref |->
                        IF k \in DOMAIN ngrams_ref
                        THEN merge_count(CounterGet(st.ngrams, k), ngrams_ref[k])
                        ELSE st.ngrams[k]],
         closest_diff |-> cl.closest_diff,
         closest_len |-> cl.closest_len]

RECURSIVE ref_stats_loop(_, _, _)
ref_stats_loop(st, output, refs) ==
    IF refs = <<>> THEN st
    ELSE ref_stats_loop(ref_stats_iter(st, output, Head(refs)), output, Tail(refs))

\* ref_stats(output, refs) -> (ngrams, closest_diff, closest_len)
ref_stats(output, refs) ==
    ref_stats_loop([ngrams |-> EmptyCounter, closest_diff |-> NoneLen,
                    closest_len |-> NoneLen], output, refs)

-----------------------------------------------------------------------------
(* A call of ref_stats                                                     *)

\* The calls of ref_stats.  The output is read for its token count alone:
\* every list of references is taken with a one-token output, and every
\* output with every list of references written with the letter "a" only,
\* which has every list of lengths.
RefStatsArgs ==
    [output : {<<"a">>}, refs : NonEmptySeqsUpTo(Segments, MaxRefs)]
    \cup [output : PlainSegments, refs : NonEmptySeqsUpTo(PlainSegments, MaxRefs)]

InitRefStats ==
    /\ fn = "ref_stats"
    /\ args \in RefStatsArgs
    /\ pc = "called"
    /\ pos = 0
    /\ acc = None
    /\ ret = None
    /\ exc = None

\* ref_stats is called and returns
RefStatsCall ==
    /\ fn = "ref_stats"
    /\ pc = "called"
    /\ ret' = ref_stats(args.output, args.refs)
    /\ pc' = "done"
    /\ UNCHANGED <<fn, args, pos, acc, exc>>

NextRefStats == RefStatsCall

SpecRefStats == InitRefStats /\ [][NextRefStats]_vars

-----------------------------------------------------------------------------
(* compute_bleu                                                            *)

\* a quotient num / den of two numbers, kept unreduced
Quot(num, den) == [num |-> num, den |-> den]
QuotEq(p, q) == p.den # 0 /\ q.den # 0 /\ p.num * q.den = q.num * p.den
QuotIsZero(p) == p.den # 0 /\ p.num = 0

\* the brevity penalty: the constants 0.0 and 1.0, or exp(num / den)
BPOne == [kind |-> "const", num |-> 1, den |-> 1]
BPZero == [kind |-> "const", num |-> 0, den |-> 1]
BPExp(num, den) == [kind |-> "exp", num |-> num, den |-> den]

\* a mutant of brevity_penalty: the ratio is taken the wrong way round
brevity_penalty_swapped(sys_len, ref_len) ==
    IF sys_len < ref_len
    THEN IF sys_len > 0 THEN BPExp(ref_len - sys_len, ref_len) ELSE BPZero
    ELSE BPOne

\* brevity_penalty = 1.0, or exp(1 - ref_len / sys_len), or 0.0
brevity_penalty(sys_len, ref_len) ==
    IF sys_len < ref_len
    THEN IF sys_len > 0 THEN BPExp(sys_len - ref_len, sys_len) ELSE BPZero
    ELSE BPOne

\* the floor of my_log, a number beyond the integers of the checker
LOG_FLOOR == "-9999999999"

\* a mutant of my_log: math.log is taken of every number
my_log_unguarded(p) == [value |-> "log", of |-> p]

\* my_log(num): LOG_FLOOR for 0.0, else math.log(num), kept symbolic
my_log(p) ==
    IF QuotIsZero(p)
    THEN [value |-> LOG_FLOOR, of |-> p]
    ELSE [value |-> "log", of |-> p]

\* brevity_penalty * exp(sum(map(my_log, precisions[:k])) / k)
cumulative_score(bp, precisions, k) ==
    [bp |-> bp, logs |-> [i \in 1..k |-> my_log(precisions[i])], div |-> k]

\* a mutant of add_k: every order above the 1-grams is adjusted
add_k_from_bigrams(st, n, smooth_method, smooth_value) ==
    IF smooth_method = "add-k" /\ n > 0
    THEN [st EXCEPT !.correct[n + 1] = @ + smooth_value,
                    !.total[n + 1] = @ + smooth_value]
    ELSE st

\* the add-k adjustment at the head of the loop body; n is the 0-based order
add_k(st, n, smooth_method, smooth_value) ==
    IF smooth_method = "add-k" /\ n > 1
    THEN [st EXCEPT !.correct[n + 1] = @ + smooth_value,
                    !.total[n + 1] = @ + smooth_value]
    ELSE st

\* a mutant of set_precision: the multiplier is doubled after its use
set_precision_late(st, n, smooth_method, smooth_value) ==
    IF st.correct[n + 1] = 0
    THEN IF smooth_method = "exp"
         THEN [st EXCEPT !.smooth_mteval = @ * 2,
                         !.precisions[n + 1] =
                             Quot(100, st.smooth_mteval * st.total[n + 1])]
         ELSE IF smooth_method = "floor"
              THEN [st EXCEPT !.precisions[n + 1] =
                                  Quot(100 * smooth_value, st.total[n + 1])]
              ELSE st
    ELSE [st EXCEPT !.precisions[n + 1] =
                        Quot(100 * st.correct[n + 1], st.total[n + 1])]

\* the precision of order n (0-based) once total[n] # 0 is known
set_precision(st, n, smooth_method, smooth_value) ==
    IF st.correct[n + 1] = 0
    THEN IF smooth_method = "exp"
         THEN [st EXCEPT !.smooth_mteval = @ * 2,
                         !.precisions[n + 1] =
                             Quot(100, (st.smooth_mteval * 2) * st.total[n + 1])]
         ELSE IF smooth_method = "floor"
              THEN [st EXCEPT !.precisions[n + 1] =
                                  Quot(100 * smooth_value, st.total[n + 1])]
              ELSE st
    ELSE [st EXCEPT !.precisions[n + 1] =
                        Quot(100 * st.correct[n + 1], st.total[n + 1])]

RECURSIVE precision_loop_continue(_, _, _, _, _)
\* a mutant of precision_loop: an order whose total is 0 is skipped and the
\* loop goes on
precision_loop_continue(st, n, smooth_method, smooth_value, use_effective_order) ==
    IF n >= NGRAM_ORDER THEN st
    ELSE LET st1 == add_k(st, n, smooth_method, smooth_value)
         IN  IF st1.total[n + 1] = 0
             THEN precision_loop_continue(st1, n + 1, smooth_method, smooth_value,
                                          use_effective_order)
             ELSE LET st2 == IF use_effective_order
                             THEN [st1 EXCEPT !.effective_order = n + 1]
                             ELSE st1
                  IN  precision_loop_continue(
                          set_precision(st2, n, smooth_method, smooth_value),
                          n + 1, smooth_method, smooth_value, use_effective_order)

RECURSIVE precision_loop(_, _, _, _, _)
\* for n in range(NGRAM_ORDER): ... with its break
precision_loop(st, n, smooth_method, smooth_value, use_effective_order) ==
    IF n >= NGRAM_ORDER THEN st
    ELSE LET st1 == add_k(st, n, smooth_method, smooth_value)
         IN  IF st1.total[n + 1] = 0 THEN st1
             ELSE LET st2 == IF use_effective_order
                             THEN [st1 EXCEPT !.effective_order = n + 1]
                             ELSE st1
                  IN  precision_loop(
                          set_precision(st2, n, smooth_method, smooth_value),
                          n + 1, smooth_method, smooth_value, use_effective_order)

\* compute_bleu(...) -> BLEU(scores, counts, totals, precisions, bp, sys_len, ref_len)
compute_bleu(correct, total, sys_len, ref_len, smooth_method, smooth_value, use_effective_order) ==
    LET st == precision_loop(
                  [correct |-> correct, total |-> total,
                   precisions |-> [x \in 1..NGRAM_ORDER |-> Quot(0, 1)],
                   smooth_mteval |-> 1, effective_order |-> NGRAM_ORDER],
                  0, smooth_method, smooth_value, use_effective_order)
        bp == brevity_penalty(sys_len, ref_len)
    IN  [scores |-> [effective_order \in 1..NGRAM_ORDER |->
                        cumulative_score(bp, st.precisions, effective_order)],
         counts |-> st.correct, totals |-> st.total,
         precisions |-> st.precisions, bp |-> bp,
         sys_len |-> sys_len, ref_len |-> ref_len]

-----------------------------------------------------------------------------
(* A direct call of compute_bleu                                           *)

SmoothMethods == {"none", "floor", "exp", "add-k"}
\* the names a caller can pass: smooth_method is any str
SmoothNames == SmoothMethods \cup {"unknown"}
SmoothValues == {0, 1}
Counts == [1..NGRAM_ORDER -> 0..MaxCount]

\* correct and total as the caller can count them: correct[n] <= total[n]
CountPairs ==
    {cp \in [correct : Counts, total : Counts] :
        \A n \in 1..NGRAM_ORDER : cp.correct[n] <= cp.total[n]}

\* the same count at every order, all of it matched or none of it
FlatCountPairs ==
    {[correct |-> [n \in 1..NGRAM_ORDER |-> IF hit THEN c ELSE 0],
      total |-> [n \in 1..NGRAM_ORDER |-> c]] : c \in 0..MaxCount, hit \in BOOLEAN}

\* smooth_value is read by "floor" and "add-k" only
Smoothings ==
    {sm \in [smooth_method : SmoothNames, smooth_value : SmoothValues,
             use_effective_order : BOOLEAN] :
        sm.smooth_method \notin {"floor", "add-k"} => sm.smooth_value = 0}

CallArgs(cp, sys_len, ref_len, sm) ==
    [correct |-> cp.correct, total |-> cp.total,
     sys_len |-> sys_len, ref_len |-> ref_len,
     smooth_method |-> sm.smooth_method, smooth_value |-> sm.smooth_value,
     use_effective_order |-> sm.use_effective_order]

\* The calls of compute_bleu.  The precisions are computed from the counts
\* and the smoothing alone and the brevity penalty from the lengths alone:
\* every pair of counts is taken with equal lengths, and every pair of
\* lengths with the flat counts.
InitComputeBleu ==
    /\ fn = "compute_bleu"
    /\ \E sm \in Smoothings :
          \/ \E cp \in CountPairs : args = CallArgs(cp, 1, 1, sm)
          \/ \E cp \in FlatCountPairs, l \in (0..MaxLen) \X (0..MaxLen) :
                args = CallArgs(cp, l[1], l[2], sm)
    /\ pc = "called"
    /\ pos = 0
    /\ acc = None
    /\ ret = None
    /\ exc = None

\* compute_bleu is called and returns
ComputeBleuCall ==
    /\ fn = "compute_bleu"
    /\ pc = "called"
    /\ ret' = compute_bleu(args.correct, args.total, args.sys_len, args.ref_len,
                           args.smooth_method, args.smooth_value,
                           args.use_effective_order)
    /\ pc' = "done"
    /\ UNCHANGED <<fn, args, pos, acc, exc>>

NextComputeBleu == ComputeBleuCall

SpecComputeBleu == InitComputeBleu /\ [][NextComputeBleu]_vars

\* compute_bleu is called a second time with the lists of the first call:
\* correct and total are adjusted in place (lines 663-664) and returned as
\* counts and totals (lines 695-696), so the lists hold ret.counts and
\* ret.totals now. The first result is kept in acc.
ComputeBleuAgain ==
    /\ fn = "compute_bleu"
    /\ pc = "done"
    /\ acc' = ret
    /\ ret' = compute_bleu(ret.counts, ret.totals, args.sys_len, args.ref_len,
                           args.smooth_method, args.smooth_value,
                           args.use_effective_order)
    /\ pc' = "again"
    /\ UNCHANGED <<fn, args, pos, exc>>

NextComputeBleuTwice == ComputeBleuCall \/ ComputeBleuAgain

SpecComputeBleuTwice == InitComputeBleu /\ [][NextComputeBleuTwice]_vars

-----------------------------------------------------------------------------
(* corpus_bleu and sentence_bleu                                           *)

\* A Python value that is a str, a list, or an iterable that is read as the
\* loop goes (an open file): isinstance(x, str) is x.type = "str"
Str(s) == [type |-> "str", val |-> s]
List(xs) == [type |-> "list", val |-> xs]
Stream == [type |-> "stream", val |-> <<>>]

\* the items an iteration over x yields: the elements of a list, the
\* one-character strings of a str
Items(x) ==
    IF x.type = "str" THEN [i \in 1..Len(x.val) |-> <<x.val[i]>>] ELSE x.val

\* An iterator is the record of the items it has, and whether it is open:
\* an open one may yield further items once those are taken.
Iter(x) ==
    IF x.type = "stream" THEN [items |-> <<>>, open |-> TRUE]
    ELSE [items |-> Items(x), open |-> FALSE]

\* what next() on the iterator it can give after n items: <<line>>, or <<>>
\* when it is exhausted (the fill value None of zip_longest)
NextItem(it, n, lines) ==
    IF n < Len(it.items) THEN {<<it.items[n + 1]>>}
    ELSE IF it.open /\ n < MaxSegs THEN {<<>>} \cup {<<l>> : l \in lines}
    ELSE {<<>>}

\* the iterator after next() gave x as its item n + 1
Taken(it, n, x) ==
    IF x = <<>> THEN [it EXCEPT !.open = FALSE]
    ELSE IF n < Len(it.items) THEN it
    ELSE [it EXCEPT !.items = Append(@, x[1])]

\* a mutant of zip_longest_more: zip, which stops at the shortest stream
zip_shortest_more(pulled) == \A i \in DOMAIN pulled : pulled[i] # <<>>

\* zip_longest(*fhs) yields a tuple while some iterator gave an item
zip_longest_more(pulled) == {i \in DOMAIN pulled : pulled[i] # <<>>} # {}

\* "None in lines" for the tuple zip_longest yields
NoneInLines(pulled) == {i \in DOMAIN pulled : pulled[i] = <<>>} # {}

\* the tuple of lines, when no iterator was exhausted
Lines(pulled) == [i \in DOMAIN pulled |-> pulled[i][1]]

\* lines 770-776: optional lower-casing, then the tokenizer on x.rstrip()
Preprocess(lines, lowercase, tokenize) ==
    [i \in DOMAIN lines |->
        TOKENIZERS(tokenize, rstrip(IF lowercase THEN lower(lines[i]) ELSE lines[i]))]

\* a mutant of clipped: the greater of the two counts is taken
clipped_max(sys_count, ref_count) == Max(sys_count, ref_count)

\* a mutant of clipped: the hypothesis count is not clipped by the references
clipped_not(sys_count, ref_count) == sys_count

\* min(sys_ngrams[ngram], ref_ngrams.get(ngram, 0))
clipped(sys_count, ref_count) == Min(sys_count, ref_count)

\* a mutant of accumulate: the statistics of the tuple replace the sums
accumulate_replace(st, lines) ==
    LET output == lines[1]
        refs == Tail(lines)
        rs == ref_stats(output, refs)
        sys_ngrams == extract_ngrams(output)
        hits == [k \in DOMAIN sys_ngrams |->
                    clipped(sys_ngrams[k], CounterGet(rs.ngrams, k))]
        OfOrder(n) == {k \in DOMAIN sys_ngrams : Len(split(k)) = n}
    IN  [st EXCEPT
            !.sys_len = Len(split(output)),
            !.ref_len = rs.closest_len,
            !.correct = [n \in 1..NGRAM_ORDER |->
                            Cardinality({<<k, i>> \in OfOrder(n) \X (1..(MaxTokens + 1)) :
                                            i <= hits[k]})],
            !.total = [n \in 1..NGRAM_ORDER |-> Max(0, Len(split(output)) - n + 1)]]

\* lines 778-787: the statistics of one tuple of lines added to st
accumulate(st, lines) ==
    LET output == lines[1]
        refs == Tail(lines)
        rs == ref_stats(output, refs)
        sys_ngrams == extract_ngrams(output)
        order == [k \in DOMAIN sys_ngrams |-> Len(split(k))]
        OfOrder(n) == {k \in DOMAIN sys_ngrams : order[k] = n}
        RECURSIVE SumKeys(_, _)
        SumKeys(keys, correct) ==
            IF keys = {} THEN 0
            ELSE LET k == CHOOSE x \in keys : TRUE
                 IN  (IF correct
                      THEN clipped(sys_ngrams[k], CounterGet(rs.ngrams, k))
                      ELSE sys_ngrams[k])
                     + SumKeys(keys \ {k}, correct)
    IN  [st EXCEPT
            !.sys_len = @ + Len(split(output)),
            !.ref_len = @ + rs.closest_len,
            !.correct = [n \in 1..NGRAM_ORDER |-> @[n] + SumKeys(OfOrder(n), TRUE)],
            !.total = [n \in 1..NGRAM_ORDER |-> @[n] + SumKeys(OfOrder(n), FALSE)]]

\* lines 751-765: the arguments made robust, the accumulators at zero
Enter(sys_stream, ref_streams) ==
    LET sys == IF sys_stream.type = "str" THEN List(<<sys_stream.val>>) ELSE sys_stream
        refs == IF ref_streams.type = "str"
                THEN <<List(<<ref_streams.val>>)>>
                ELSE ref_streams.val
    IN  [fhs |-> <<Iter(sys)>> \o [i \in DOMAIN refs |-> Iter(refs[i])],
         sys_len |-> 0, ref_len |-> 0,
         correct |-> [n \in 1..NGRAM_ORDER |-> 0],
         total |-> [n \in 1..NGRAM_ORDER |-> 0]]

\* the lines a reference stream can hold, and those of the system stream
RefLineSet == {<<"A", " ", "b">>, <<"a", " ", "b", " ", "a", " ", "b">>}
SysLineSet == RefLineSet \cup {<<>>}
\* the strings handed to sentence_bleu
SentenceLines == {<<>>, <<"a">>, <<"b">>, <<"a", " ", "b">>}

\* a line of a tuple in which some stream has ended
Filler == <<"A", " ", "b">>

RECURSIVE PulledFrom(_, _, _, _, _)
\* the tuples next() can give on the iterators i.. of fhs after n tuples,
\* the system stream yielding lines of sys and a reference stream lines of ref
PulledFrom(fhs, n, i, sys, ref) ==
    IF i > Len(fhs) THEN {<<>>}
    ELSE {<<x>> \o rest :
            x \in NextItem(fhs[i], n, IF i = 1 THEN sys ELSE ref),
            rest \in PulledFrom(fhs, n, i + 1, sys, ref)}

\* The tuples the pass can be given after n tuples: any lines when every
\* iterator gives one; when one is exhausted the lines are not looked at,
\* they are all the Filler.
Pulled(fhs, n) ==
    {p \in PulledFrom(fhs, n, 1, SysLineSet, RefLineSet) :
        \A i \in DOMAIN p : p[i] # <<>>}
    \cup PulledFrom(fhs, n, 1, {Filler}, {Filler})

\* the iterators after they gave the tuple pulled
TakenAll(fhs, n, pulled) == [i \in DOMAIN fhs |-> Taken(fhs[i], n, pulled[i])]

\* corpus_bleu with its defaults, and as raw_corpus_bleu calls it but for
\* lower-casing
Configs ==
    {[smooth_method |-> "exp", smooth_value |-> 0, lowercase |-> FALSE,
      tokenize |-> "13a", use_effective_order |-> FALSE],
     [smooth_method |-> "floor", smooth_value |-> 0, lowercase |-> TRUE,
      tokenize |-> "none", use_effective_order |-> TRUE]}

\* what sentence_bleu passes on, with its own defaults
SentenceConfig ==
    [smooth_method |-> "floor", smooth_value |-> 0, lowercase |-> FALSE,
     tokenize |-> "13a", use_effective_order |-> TRUE]

\* a system stream against 1..MaxRefs reference streams, or a str against a
\* str
CorpusBleuArgs ==
    {[sys_stream |-> Stream, ref_streams |-> List([i \in 1..k |-> Stream]),
      cfg |-> c] : k \in 1..MaxRefs, c \in Configs}
    \cup
    [sys_stream : {Str(l) : l \in SysLineSet},
     ref_streams : {Str(l) : l \in RefLineSet},
     cfg : Configs]

SentenceBleuArgs ==
    [hypothesis : {Str(l) : l \in SentenceLines},
     references : {List(rs) : rs \in
                      NonEmptySeqsUpTo({Str(l) : l \in SentenceLines}, MaxRefs)}]

InitBleu ==
    /\ fn \in {"corpus_bleu", "sentence_bleu"}
    /\ args = None
    /\ pc = "idle"
    /\ pos = 0
    /\ acc = None
    /\ ret = None
    /\ exc = None

\* the configuration of the running corpus_bleu
Cfg == IF fn = "sentence_bleu" THEN SentenceConfig ELSE args.cfg

\* corpus_bleu is entered
CorpusBleuEnter ==
    /\ fn = "corpus_bleu"
    /\ pc = "idle"
    /\ \E a \in CorpusBleuArgs :
          /\ args' = a
          /\ acc' = Enter(a.sys_stream, a.ref_streams)
    /\ pc' = "loop"
    /\ UNCHANGED <<fn, pos, ret, exc>>

\* sentence_bleu hands its arguments to corpus_bleu as they are
SentenceBleuEnter ==
    /\ fn = "sentence_bleu"
    /\ pc = "idle"
    /\ \E a \in SentenceBleuArgs :
          /\ args' = a
          /\ acc' = Enter(a.hypothesis, a.references)
    /\ pc' = "loop"
    /\ UNCHANGED <<fn, pos, ret, exc>>

\* one pass of the loop over zip_longest(*fhs) that raises EOFError
BleuMisaligned ==
    /\ fn \in {"corpus_bleu", "sentence_bleu"}
    /\ pc = "loop"
    /\ \E pulled \in Pulled(acc.fhs, pos) :
          /\ zip_longest_more(pulled)
          /\ NoneInLines(pulled)
          /\ acc' = [acc EXCEPT !.fhs = TakenAll(@, pos, pulled)]
    /\ exc' = "EOFError"
    /\ pc' = "raised"
    /\ UNCHANGED <<fn, args, pos, ret>>

\* one pass of the loop over zip_longest(*fhs) that scores a tuple of lines
BleuSegment ==
    /\ fn \in {"corpus_bleu", "sentence_bleu"}
    /\ pc = "loop"
    /\ \E pulled \in Pulled(acc.fhs, pos) :
          /\ zip_longest_more(pulled)
          /\ ~NoneInLines(pulled)
          /\ acc' = accumulate([acc EXCEPT !.fhs = TakenAll(@, pos, pulled)],
                               Preprocess(Lines(pulled), Cfg.lowercase, Cfg.tokenize))
    /\ pos' = pos + 1
    /\ UNCHANGED <<fn, args, pc, ret, exc>>

\* the loop is over: compute_bleu on the accumulators, whose lists it changes
BleuFinish ==
    /\ fn \in {"corpus_bleu", "sentence_bleu"}
    /\ pc = "loop"
    /\ \E pulled \in Pulled(acc.fhs, pos) :
          /\ ~zip_longest_more(pulled)
          /\ LET bleu == compute_bleu(acc.correct, acc.total, acc.sys_len,
                                      acc.ref_len, Cfg.smooth_method,
                                      Cfg.smooth_value, Cfg.use_effective_order)
             IN  /\ ret' = bleu
                 /\ acc' = [acc EXCEPT !.fhs = TakenAll(@, pos, pulled),
                                       !.correct = bleu.counts,
                                       !.total = bleu.totals]
    /\ pc' = "done"
    /\ UNCHANGED <<fn, args, pos, exc>>

NextBleu ==
    \/ CorpusBleuEnter
    \/ SentenceBleuEnter
    \/ BleuMisaligned
    \/ BleuSegment
    \/ BleuFinish

SpecBleu == InitBleu /\ [][NextBleu]_vars

-----------------------------------------------------------------------------
(* chrF                                                                    *)

RECURSIVE SumValues(_)
\* sum(counter.values())
SumValues(c) ==
    IF DOMAIN c = {} THEN 0
    ELSE LET k == CHOOSE x \in DOMAIN c : TRUE
         IN  c[k] + SumValues([x \in DOMAIN c \ {k} |-> c[x]])

\* extract_char_ngrams(s, n)
extract_char_ngrams(s, n) ==
    LET starts == 1..(Len(s) - n + 1)
        gram(i) == SubSeq(s, i, i + n - 1)
    IN  [g \in {gram(i) : i \in starts} |->
            Cardinality({i \in starts : gram(i) = g})]

\* a mutant of CounterAnd: Counter | Counter, the maximum of the two counts
CounterOr(c, d) ==
    [k \in DOMAIN c \cup DOMAIN d |-> Max(CounterGet(c, k), CounterGet(d, k))]

\* Counter & Counter: the minimum of the two counts, where it is positive
CounterAnd(c, d) ==
    [k \in DOMAIN c \cap DOMAIN d |-> Min(c[k], d[k])]

RECURSIVE delete_whitespace(_)
\* delete_whitespace(text)
delete_whitespace(text) ==
    IF text = <<>> THEN <<>>
    ELSE IF Head(text) \in Whitespace THEN delete_whitespace(Tail(text))
    ELSE <<Head(text)>> \o delete_whitespace(Tail(text))

\* get_sentence_statistics(hypothesis, reference, order, remove_whitespace):
\* statistics[3 * i + 0 .. 3 * i + 2] is at the indices 3 * i + 1 .. 3 * i + 3
get_sentence_statistics(hypothesis, reference, order, remove_whitespace) ==
    LET hyp == IF remove_whitespace THEN delete_whitespace(hypothesis) ELSE hypothesis
        ref == IF remove_whitespace THEN delete_whitespace(reference) ELSE reference
        stat(i, c) ==
            LET hypothesis_ngrams == extract_char_ngrams(hyp, i + 1)
                reference_ngrams == extract_char_ngrams(ref, i + 1)
            IN  IF c = 0 THEN SumValues(hypothesis_ngrams)
                ELSE IF c = 1 THEN SumValues(reference_ngrams)
                ELSE SumValues(CounterAnd(hypothesis_ngrams, reference_ngrams))
    IN  [x \in 1..(order * 3) |-> stat((x - 1) \div 3, (x - 1) % 3)]

\* a mutant of zip_more: the pairs are taken while either stream has one
zip_either_more(hypotheses, references, n) ==
    n < Len(hypotheses) \/ n < Len(references)

\* zip(hypotheses, references) has a further pair after n pairs
zip_more(hypotheses, references, n) ==
    n < Len(hypotheses) /\ n < Len(references)

\* avg_precision + avg_recall == 0
QIsZeroSum(p, q) == p.num * q.den + q.num * p.den = 0

RECURSIVE Gcd(_, _)
Gcd(a, b) == IF b = 0 THEN a ELSE Gcd(b, a % b)

\* the quotient num / den in lowest terms; a divisor 0 stays visible as den = 0
Reduced(num, den) ==
    IF den = 0 THEN Quot(num, 0)
    ELSE LET g == Gcd(Abs(num), Abs(den)) IN Quot(num \div g, den \div g)

QAdd(p, q) == Reduced(p.num * q.den + q.num * p.den, p.den * q.den)
QMul(p, q) == Reduced(p.num * q.num, p.den * q.den)
\* p / q for quotients
QDiv(p, q) == Reduced(p.num * q.den, p.den * q.num)

RECURSIVE avg_loop(_, _, _, _)
\* the loop of _avg_precision_and_recall from order index i (0-based) on
avg_loop(st, statistics, i, order) ==
    IF i >= order THEN st
    ELSE LET hypotheses_ngrams == statistics[3 * i + 1]
             references_ngrams == statistics[3 * i + 2]
             common_ngrams == statistics[3 * i + 3]
         IN  avg_loop(
                 IF hypotheses_ngrams > 0 /\ references_ngrams > 0
                 THEN [avg_precision |->
                           QAdd(st.avg_precision, Quot(common_ngrams, hypotheses_ngrams)),
                       avg_recall |->
                           QAdd(st.avg_recall, Quot(common_ngrams, references_ngrams)),
                       effective_order |-> st.effective_order + 1]
                 ELSE st,
                 statistics, i + 1, order)

\* a mutant of avg_precision_and_recall: the sums are divided by order
avg_precision_and_recall_by_order(statistics, order) ==
    LET st == avg_loop([avg_precision |-> Quot(0, 1), avg_recall |-> Quot(0, 1),
                        effective_order |-> 0], statistics, 0, order)
    IN  IF st.effective_order = 0
        THEN [avg_precision |-> Quot(0, 1), avg_recall |-> Quot(0, 1)]
        ELSE [avg_precision |-> QDiv(st.avg_precision, Quot(order, 1)),
              avg_recall |-> QDiv(st.avg_recall, Quot(order, 1))]

\* _avg_precision_and_recall(statistics, order)
avg_precision_and_recall(statistics, order) ==
    LET st == avg_loop([avg_precision |-> Quot(0, 1), avg_recall |-> Quot(0, 1),
                        effective_order |-> 0], statistics, 0, order)
    IN  IF st.effective_order = 0
        THEN [avg_precision |-> Quot(0, 1), avg_recall |-> Quot(0, 1)]
        ELSE [avg_precision |-> QDiv(st.avg_precision, Quot(st.effective_order, 1)),
              avg_recall |-> QDiv(st.avg_recall, Quot(st.effective_order, 1))]

\* a mutant of chrf: beta is not squared
chrf_beta_unsquared(avg_precision, avg_recall, beta) ==
    IF QIsZeroSum(avg_precision, avg_recall) THEN Quot(0, 1)
    ELSE LET beta_square == beta
         IN  QDiv(QMul(Quot(1 + beta_square, 1), QMul(avg_precision, avg_recall)),
                  QAdd(QMul(Quot(beta_square, 1), avg_precision), avg_recall))

\* _chrf(avg_precision, avg_recall, beta); a score with den = 0 is the
\* ZeroDivisionError of the division
chrf(avg_precision, avg_recall, beta) ==
    IF QIsZeroSum(avg_precision, avg_recall) THEN Quot(0, 1)
    ELSE LET beta_square == beta * beta
         IN  QDiv(QMul(Quot(1 + beta_square, 1), QMul(avg_precision, avg_recall)),
                  QAdd(QMul(Quot(beta_square, 1), avg_precision), avg_recall))

\* the CHRF that corpus_chrf and sentence_chrf build from the statistics
chrf_result(statistics, order, beta) ==
    LET avg == avg_precision_and_recall(statistics, order)
    IN  chrf(avg.avg_precision, avg.avg_recall, beta)

\* the segments of a chrF stream; the blank one is empty once its whitespace
\* is removed
ChrfLines == {<<" ">>, <<"a", "b">>, <<"a", " ", "b", "a">>}
\* the strings handed to sentence_chrf
SentenceChrfLines == ChrfLines \cup {<<>>}
ChrfStreams == SeqsUpTo(ChrfLines, MaxSegs)

CorpusChrfArgs ==
    [hypotheses : ChrfStreams, references : ChrfStreams,
     order : 0..MaxOrder, beta : 0..2, remove_whitespace : BOOLEAN]

SentenceChrfArgs ==
    [hypothesis : SentenceChrfLines, reference : SentenceChrfLines,
     order : 0..MaxOrder, beta : 0..2, remove_whitespace : BOOLEAN]

InitChrf ==
    /\ fn \in {"corpus_chrf", "sentence_chrf"}
    /\ args = None
    /\ pc = "idle"
    /\ pos = 0
    /\ acc = None
    /\ ret = None
    /\ exc = None

\* get_corpus_statistics is entered: corpus_statistics = [0] * (order * 3)
CorpusChrfEnter ==
    /\ fn = "corpus_chrf"
    /\ pc = "idle"
    /\ \E a \in CorpusChrfArgs :
          /\ args' = a
          /\ acc' = [corpus_statistics |-> [x \in 1..(a.order * 3) |-> 0]]
    /\ pc' = "loop"
    /\ UNCHANGED <<fn, pos, ret, exc>>

\* one pass of the loop of get_corpus_statistics
CorpusChrfSegment ==
    /\ fn = "corpus_chrf"
    /\ pc = "loop"
    /\ zip_more(args.hypotheses, args.references, pos)
    /\ LET statistics ==
               get_sentence_statistics(args.hypotheses[pos + 1],
                                       args.references[pos + 1],
                                       args.order, args.remove_whitespace)
       IN  acc' = [acc EXCEPT !.corpus_statistics =
                      [x \in DOMAIN statistics |-> @[x] + statistics[x]]]
    /\ pos' = pos + 1
    /\ UNCHANGED <<fn, args, pc, ret, exc>>

\* the value or the exception a score ends the call with
Finish(score) ==
    IF score.den = 0
    THEN /\ exc' = "ZeroDivisionError"
         /\ pc' = "raised"
         /\ UNCHANGED ret
    ELSE /\ ret' = [score |-> score]
         /\ pc' = "done"
         /\ UNCHANGED exc

\* the loop is over: the averages and the score
CorpusChrfFinish ==
    /\ fn = "corpus_chrf"
    /\ pc = "loop"
    /\ ~zip_more(args.hypotheses, args.references, pos)
    /\ Finish(chrf_result(acc.corpus_statistics, args.order, args.beta))
    /\ UNCHANGED <<fn, args, pos, acc>>

\* sentence_chrf, which has no loop over segments
SentenceChrfCall ==
    /\ fn = "sentence_chrf"
    /\ pc = "idle"
    /\ \E a \in SentenceChrfArgs :
          /\ args' = a
          /\ Finish(chrf_result(
                        get_sentence_statistics(a.hypothesis, a.reference,
                                                a.order, a.remove_whitespace),
                        a.order, a.beta))
    /\ UNCHANGED <<fn, pos, acc>>

NextChrf ==
    \/ CorpusChrfEnter
    \/ CorpusChrfSegment
    \/ CorpusChrfFinish
    \/ SentenceChrfCall

SpecChrf == InitChrf /\ [][NextChrf]_vars

-----------------------------------------------------------------------------
(* A direct call of _avg_precision_and_recall                              *)

\* (hypothesis count, reference count, common count) of one order, as
\* get_sentence_statistics can count them
StatTriples ==
    {t \in (0..MaxCount) \X (0..MaxCount) \X (0..MaxCount) : t[3] <= Min(t[1], t[2])}

\* the flat list of the statistics of the orders 1..n
Flat(ts) == [x \in 1..(3 * Len(ts)) |-> ts[((x - 1) \div 3) + 1][((x - 1) % 3) + 1]]

\* the statistics of the orders 1..order, order in 0..MaxOrder
InitAvg ==
    /\ fn = "_avg_precision_and_recall"
    /\ \E n \in 0..MaxOrder :
          \E ts \in [1..n -> StatTriples] :
              args = [statistics |-> Flat(ts), order |-> n]
    /\ pc = "called"
    /\ pos = 0
    /\ acc = None
    /\ ret = None
    /\ exc = None

\* _avg_precision_and_recall is called and returns
AvgCall ==
    /\ fn = "_avg_precision_and_recall"
    /\ pc = "called"
    /\ ret' = avg_precision_and_recall(args.statistics, args.order)
    /\ pc' = "done"
    /\ UNCHANGED <<fn, args, pos, acc, exc>>

NextAvg == AvgCall

SpecAvg == InitAvg /\ [][NextAvg]_vars

-----------------------------------------------------------------------------
(* A direct call of _chrf                                                  *)

\* an averaged precision or recall: a quotient within 0..1
Ratios == {q \in [num : 0..MaxDen, den : 1..MaxDen] : q.num <= q.den}
Betas == 0..2

InitFBeta ==
    /\ fn = "_chrf"
    /\ args \in [avg_precision : Ratios, avg_recall : Ratios, beta : Betas]
    /\ pc = "called"
    /\ pos = 0
    /\ acc = None
    /\ ret = None
    /\ exc = None

\* _chrf is called, and returns or divides by zero
FBetaCall ==
    /\ fn = "_chrf"
    /\ pc = "called"
    /\ Finish(chrf(args.avg_precision, args.avg_recall, args.beta))
    /\ UNCHANGED <<fn, args, pos, acc>>

NextFBeta == FBetaCall

SpecFBeta == InitFBeta /\ [][NextFBeta]_vars

-----------------------------------------------------------------------------
(* bleu_signature and chrf_signature                                       *)

VERSION == "1.4.2"

\* Python values of the argparse namespace, with their types
PyInt(n) == [type |-> "int", val |-> n]
PyBool(b) == [type |-> "bool", val |-> b]
NoneValue == [type |-> "NoneType", val |-> "None"]

\* "{}".format(v)
format(v) ==
    IF v.type = "int" THEN ToString(v.val)
    ELSE IF v.type = "bool" THEN (IF v.val THEN "True" ELSE "False")
    ELSE v.val

\* The keys of the signature are strings written as sequences of their
\* characters, which sorted() compares by their code points
Alphabet ==
    <<"a", "b", "c", "d", "e", "f", "g", "h", "i", "j", "k", "l", "m",
      "n", "o", "p", "q", "r", "s", "t", "u", "v", "w", "x", "y", "z">>
Ord(c) == CHOOSE i \in DOMAIN Alphabet : Alphabet[i] = c

RECURSIVE Chars(_)
\* the str of a sequence of characters
Chars(cs) == IF cs = <<>> THEN "" ELSE Head(cs) \o Chars(Tail(cs))

RECURSIVE StrLess(_, _)
\* a < b for two str
StrLess(a, b) ==
    IF b = <<>> THEN FALSE
    ELSE IF a = <<>> THEN TRUE
    ELSE IF Head(a) = Head(b) THEN StrLess(Tail(a), Tail(b))
    ELSE Ord(Head(a)) < Ord(Head(b))

K_test == <<"t", "e", "s", "t">>
K_lang == <<"l", "a", "n", "g">>
K_smooth == <<"s", "m", "o", "o", "t", "h">>
K_case == <<"c", "a", "s", "e">>
K_tok == <<"t", "o", "k">>
K_numrefs == <<"n", "u", "m", "r", "e", "f", "s">>
K_version == <<"v", "e", "r", "s", "i", "o", "n">>
K_origlang == <<"o", "r", "i", "g", "l", "a", "n", "g">>
K_subset == <<"s", "u", "b", "s", "e", "t">>
K_numchars == <<"n", "u", "m", "c", "h", "a", "r", "s">>
K_space == <<"s", "p", "a", "c", "e">>

\* abbr of bleu_signature
bleu_abbr(x) ==
    CASE x = K_test -> "t" [] x = K_lang -> "l" [] x = K_smooth -> "s"
      [] x = K_case -> "c" [] x = K_tok -> "tok" [] x = K_numrefs -> "#"
      [] x = K_version -> "v" [] x = K_origlang -> "o" [] x = K_subset -> "S"

\* abbr of chrf_signature
chrf_abbr(x) ==
    CASE x = K_test -> "t" [] x = K_lang -> "l" [] x = K_numchars -> "n"
      [] x = K_space -> "s" [] x = K_case -> "c" [] x = K_numrefs -> "#"
      [] x = K_version -> "v" [] x = K_origlang -> "o" [] x = K_subset -> "S"

\* A dict is the sequence of its <<key, value>> items in insertion order.
\* d[key] = value for a key the dict does not have yet
DictSet(dict, key, value) == Append(dict, <<key, value>>)
\* d[key]
DictGet(dict, key) ==
    LET i == CHOOSE j \in DOMAIN dict : dict[j][1] = key IN dict[i][2]
\* d.keys()
DictKeys(dict) == [i \in DOMAIN dict |-> dict[i][1]]

RECURSIVE InsertSorted(_, _)
InsertSorted(x, xs) ==
    IF xs = <<>> THEN <<x>>
    ELSE IF StrLess(Head(xs), x) THEN <<Head(xs)>> \o InsertSorted(x, Tail(xs))
    ELSE <<x>> \o xs

RECURSIVE SortFrom(_, _)
SortFrom(keys, out) ==
    IF keys = <<>> THEN out ELSE SortFrom(Tail(keys), InsertSorted(Head(keys), out))

\* a mutant of sorted: the keys in the order of the dict
unsorted(keys) == keys

\* sorted(keys)
sorted(keys) == SortFrom(keys, <<>>)

\* signature["test"], ["lang"], ["origlang"], ["subset"] set when given
with_optional(signature, a) ==
    LET s1 == IF a.test_set.type # "NoneType"
              THEN DictSet(signature, K_test, a.test_set) ELSE signature
        s2 == IF a.langpair.type # "NoneType"
              THEN DictSet(s1, K_lang, a.langpair) ELSE s1
        s3 == IF a.origlang.type # "NoneType"
              THEN DictSet(s2, K_origlang, a.origlang) ELSE s2
    IN  IF a.subset.type # "NoneType"
        THEN DictSet(s3, K_subset, a.subset) ELSE s3

RECURSIVE join_plus(_)
\* "+".join(items)
join_plus(items) ==
    IF items = <<>> THEN ""
    ELSE IF Len(items) = 1 THEN items[1]
    ELSE items[1] \o "+" \o join_plus(Tail(items))

\* bleu_signature(args, numrefs)
bleu_signature(a, numrefs) ==
    LET signature ==
            with_optional(
                <<(<<K_tok, a.tokenize>>), <<K_version, Str(VERSION)>>,
                  <<K_smooth, a.smooth>>, <<K_numrefs, numrefs>>,
                  <<K_case, Str(IF a.lc.val THEN "lc" ELSE "mixed")>>>>, a)
        keys == sorted(DictKeys(signature))
    IN  join_plus([i \in DOMAIN keys |->
            (IF a.short.val THEN bleu_abbr(keys[i]) ELSE Chars(keys[i]))
                \o "." \o format(DictGet(signature, keys[i]))])

\* chrf_signature(args, numrefs)
chrf_signature(a, numrefs) ==
    LET signature ==
            with_optional(
                <<(<<K_version, Str(VERSION)>>), <<K_space, a.chrf_whitespace>>,
                  <<K_numchars, a.chrf_order>>, <<K_numrefs, numrefs>>,
                  <<K_case, Str(IF a.lc.val THEN "lc" ELSE "mixed")>>>>, a)
        keys == sorted(DictKeys(signature))
    IN  join_plus([i \in DOMAIN keys |->
            (IF a.short.val THEN chrf_abbr(keys[i]) ELSE Chars(keys[i]))
                \o "." \o format(DictGet(signature, keys[i]))])

\* an optional argument: None or the one value of the model
Optional(v) == {NoneValue, Str(v)}

\* the namespaces handed to the two functions, each with the options it reads
SignatureArgs ==
    [tokenize : {Str("13a"), Str("none")}, smooth : {Str("exp"), Str("floor")},
     chrf_whitespace : {PyBool(FALSE)}, chrf_order : {PyInt(MaxOrder)},
     lc : {PyBool(FALSE), PyBool(TRUE)}, short : {PyBool(FALSE), PyBool(TRUE)},
     test_set : Optional("wmt17"), langpair : Optional("en-de"),
     origlang : Optional("en"), subset : Optional("news"),
     numrefs : {PyInt(n) : n \in 1..MaxRefs}]
    \cup
    [tokenize : {Str("13a")}, smooth : {Str("exp")},
     chrf_whitespace : {PyBool(FALSE), PyBool(TRUE)},
     chrf_order : {PyInt(n) : n \in 1..MaxOrder},
     lc : {PyBool(FALSE), PyBool(TRUE)}, short : {PyBool(FALSE), PyBool(TRUE)},
     test_set : Optional("wmt17"), langpair : Optional("en-de"),
     origlang : Optional("en"), subset : Optional("news"),
     numrefs : {PyInt(n) : n \in 1..MaxRefs}]

InitSignature ==
    /\ fn \in {"bleu_signature", "chrf_signature"}
    /\ args \in SignatureArgs
    /\ pc = "called"
    /\ pos = 0
    /\ acc = None
    /\ ret = None
    /\ exc = None

BleuSignatureCall ==
    /\ fn = "bleu_signature"
    /\ pc = "called"
    /\ ret' = bleu_signature(args, args.numrefs)
    /\ pc' = "done"
    /\ UNCHANGED <<fn, args, pos, acc, exc>>

ChrfSignatureCall ==
    /\ fn = "chrf_signature"
    /\ pc = "called"
    /\ ret' = chrf_signature(args, args.numrefs)
    /\ pc' = "done"
    /\ UNCHANGED <<fn, args, pos, acc, exc>>

NextSignature == BleuSignatureCall \/ ChrfSignatureCall

SpecSignature == InitSignature /\ [][NextSignature]_vars

-----------------------------------------------------------------------------
(* Calls whose steps interleave                                            *)

\* Two calls run at once, as on two threads: each variable holds, per call,
\* what it holds for a single call.
Calls == {1, 2}

\* the frame of a call: its arguments, its position and its local variables
FrameOf(c) ==
    [fn |-> fn[c], args |-> args[c], pc |-> pc[c], pos |-> pos[c],
     acc |-> acc[c], ret |-> ret[c], exc |-> exc[c]]

\* the next frame of corpus_bleu: lines 756-764, one pass of the loop of
\* lines 766-787, or lines 789-797
BleuFrameNext(f) ==
    IF f.pc = "idle"
    THEN {[f EXCEPT !.pc = "loop",
                    !.acc = Enter(f.args.sys_stream, f.args.ref_streams)]}
    ELSE {LET taken == [f.acc EXCEPT !.fhs = TakenAll(@, f.pos, pulled)]
              cfg == f.args.cfg
              bleu == compute_bleu(f.acc.correct, f.acc.total, f.acc.sys_len,
                                   f.acc.ref_len, cfg.smooth_method,
                                   cfg.smooth_value, cfg.use_effective_order)
          IN  IF zip_longest_more(pulled)
              THEN IF NoneInLines(pulled)
                   THEN [f EXCEPT !.acc = taken, !.exc = "EOFError", !.pc = "raised"]
                   ELSE [f EXCEPT !.acc = accumulate(taken,
                                              Preprocess(Lines(pulled), cfg.lowercase,
                                                         cfg.tokenize)),
                                  !.pos = @ + 1]
              ELSE [f EXCEPT !.ret = bleu,
                             !.acc = [taken EXCEPT !.correct = bleu.counts,
                                                   !.total = bleu.totals],
                             !.pc = "done"]
          : pulled \in Pulled(f.acc.fhs, f.pos)}

\* the next frame of corpus_chrf: line 851, one pass of the loop of lines
\* 853-857, or lines 913-916
ChrfFrameNext(f) ==
    IF f.pc = "idle"
    THEN {[f EXCEPT !.pc = "loop",
                    !.acc = [corpus_statistics |->
                                [x \in 1..(f.args.order * 3) |-> 0]]]}
    ELSE IF zip_more(f.args.hypotheses, f.args.references, f.pos)
    THEN LET statistics ==
                 get_sentence_statistics(f.args.hypotheses[f.pos + 1],
                                         f.args.references[f.pos + 1],
                                         f.args.order, f.args.remove_whitespace)
         IN  {[f EXCEPT !.acc.corpus_statistics =
                            [x \in DOMAIN statistics |-> @[x] + statistics[x]],
                        !.pos = @ + 1]}
    ELSE LET score == chrf_result(f.acc.corpus_statistics, f.args.order, f.args.beta)
         IN  IF score.den = 0
             THEN {[f EXCEPT !.exc = "ZeroDivisionError", !.pc = "raised"]}
             ELSE {[f EXCEPT !.ret = [score |-> score], !.pc = "done"]}

FrameNext(f) ==
    IF f.pc \notin {"idle", "loop"} THEN {}
    ELSE IF f.fn = "corpus_bleu" THEN BleuFrameNext(f)
    ELSE ChrfFrameNext(f)

\* a mutant of Store: the accumulators are one storage that every call
\* writes
StoreShared(accs, c, x) == [d \in DOMAIN accs |-> x]

\* the accumulators are local variables of the call (lines 756-764, 851):
\* call c writes its own
Store(accs, c, x) == [accs EXCEPT ![c] = x]

\* a corpus that is only read: a list of hypotheses and one list of
\* references, of the same length or one segment short
WorkerCorpora ==
    {[hyps |-> h, refs |-> [j \in 1..n |-> <<"a", " ", "b", " ", "a", " ", "b">>]] :
        h \in [1..MaxSegs -> RefLineSet], n \in {MaxSegs - 1, MaxSegs}}

\* corpus_bleu under add-k, which adjusts the accumulators at the end, or
\* corpus_chrf
WorkerArgs(f, corpus) ==
    IF f = "corpus_bleu"
    THEN [sys_stream |-> List(corpus.hyps),
          ref_streams |-> List(<<List(corpus.refs)>>),
          cfg |-> [smooth_method |-> "add-k", smooth_value |-> 1,
                   lowercase |-> FALSE, tokenize |-> "13a",
                   use_effective_order |-> FALSE]]
    ELSE [hypotheses |-> corpus.hyps, references |-> corpus.refs,
          order |-> MaxOrder, beta |-> 2, remove_whitespace |-> TRUE]

InitWorkers ==
    /\ fn \in [Calls -> {"corpus_bleu", "corpus_chrf"}]
    /\ \E corpus \in [Calls -> WorkerCorpora] :
          args = [c \in Calls |-> WorkerArgs(fn[c], corpus[c])]
    /\ pc = [c \in Calls |-> "idle"]
    /\ pos = [c \in Calls |-> 0]
    /\ acc = [c \in Calls |-> None]
    /\ ret = [c \in Calls |-> None]
    /\ exc = [c \in Calls |-> None]

\* call c takes its next step
WorkerStep(c) ==
    \E g \in FrameNext(FrameOf(c)) :
        /\ pc' = [pc EXCEPT ![c] = g.pc]
        /\ pos' = [pos EXCEPT ![c] = g.pos]
        /\ acc' = Store(acc, c, g.acc)
        /\ ret' = [ret EXCEPT ![c] = g.ret]
        /\ exc' = [exc EXCEPT ![c] = g.exc]
        /\ UNCHANGED <<fn, args>>

\* call c is entered
WorkerEnter(c) == pc[c] = "idle" /\ WorkerStep(c)

\* call c scores its next tuple of segments
WorkerSegment(c) == pc[c] = "loop" /\ WorkerStep(c) /\ pc'[c] = "loop"

\* call c returns or raises
WorkerEnd(c) == pc[c] = "loop" /\ WorkerStep(c) /\ pc'[c] # "loop"

NextWorkers ==
    \E c \in Calls : WorkerEnter(c) \/ WorkerSegment(c) \/ WorkerEnd(c)

SpecWorkers == InitWorkers /\ [][NextWorkers]_vars

-----------------------------------------------------------------------------
(* Properties of ref_stats                                                 *)

RefStatsDone == fn = "ref_stats" /\ pc = "done"

MaxOfSet(S) == CHOOSE m \in S : \A x \in S : x <= m
MinOfSet(S) == CHOOSE m \in S : \A x \in S : m <= x

\* the occurrences of the token sequence w in the token sequence toks
CountIn(toks, w) ==
    Cardinality({i \in 1..(Len(toks) - Len(w) + 1) :
                    SubSeq(toks, i, i + Len(w) - 1) = w})

\* the token sequences whose joined form is a segment of the model
KeyTokens == {t \in TokenSeqs : Len(t) <= MaxTokens}

\* C5: the merged n-gram counts of ref_stats give every n-gram of order 1..4
\* the maximum of its counts over the references (0, the key being absent,
\* when no reference has it), and with one reference they are that
\* reference's own n-gram counts.
C5_MergedCountsAreMaxima ==
    RefStatsDone =>
        LET toks == [i \in DOMAIN args.refs |-> split(args.refs[i])]
        IN  /\ DOMAIN ret.ngrams \subseteq Segments
            /\ \A key \in DOMAIN ret.ngrams : ret.ngrams[key] > 0
            /\ \A t \in KeyTokens :
                  CounterGet(ret.ngrams, join(t)) =
                      IF Len(t) \in 1..NGRAM_ORDER
                      THEN MaxOfSet({CountIn(toks[i], t) : i \in DOMAIN toks})
                      ELSE 0
            /\ Len(args.refs) = 1 =>
                  \A t \in KeyTokens :
                      Len(t) \in 1..NGRAM_ORDER =>
                          CounterGet(ret.ngrams, join(t)) = CountIn(toks[1], t)

\* two references share an n-gram with different counts, and it was merged
C5_Witness ==
    /\ RefStatsDone
    /\ Len(args.refs) = 2
    /\ \E t \in KeyTokens :
          /\ Len(t) = 2
          /\ CountIn(split(args.refs[1]), t) >= 1
          /\ CountIn(split(args.refs[2]), t) > CountIn(split(args.refs[1]), t)
          /\ CounterGet(ret.ngrams, join(t)) = CountIn(split(args.refs[2]), t)

RefLens(refs) == {Len(split(refs[i])) : i \in DOMAIN refs}

\* C6: the closest length of ref_stats is a reference length that minimises
\* abs(len(hyp) - len(ref)), the smallest such length on a tie; the value is
\* a function of the set of reference lengths, so the order of the
\* references does not matter.
C6_ClosestLenIsShortestMinimiser ==
    RefStatsDone =>
        LET hyplen == Len(split(args.output))
            lens == RefLens(args.refs)
            mindiff == MinOfSet({Abs(hyplen - l) : l \in lens})
        IN  /\ ret.closest_len \in lens
            /\ Abs(hyplen - ret.closest_len) = mindiff
            /\ ret.closest_diff = mindiff
            /\ ret.closest_len = MinOfSet({l \in lens : Abs(hyplen - l) = mindiff})

\* a tie between a longer reference given first and a shorter one
C6_Witness ==
    /\ RefStatsDone
    /\ Len(args.refs) = 2
    /\ LET hyplen == Len(split(args.output))
           l1 == Len(split(args.refs[1]))
           l2 == Len(split(args.refs[2]))
       IN  /\ l2 < l1
           /\ Abs(hyplen - l1) = Abs(hyplen - l2)
           /\ ret.closest_len = l2

-----------------------------------------------------------------------------
(* Properties of compute_bleu                                              *)

ComputeBleuDone == fn = "compute_bleu" /\ pc = "done"

Orders == 1..NGRAM_ORDER

\* the greatest order n with total[n] > 0, 0 when there is none
GreatestOrder(total) ==
    IF \A n \in Orders : total[n] = 0 THEN 0
    ELSE MaxOfSet({n \in Orders : total[n] > 0})

\* C3: with use_effective_order the headline (order-4) score is
\* brevity_penalty * exp(mean of log(precision_i) over the first e orders),
\* e the greatest order with total > 0.
C3_HeadlineUsesEffectiveOrder ==
    (ComputeBleuDone /\ args.use_effective_order
        /\ GreatestOrder(ret.totals) >= 1) =>
        ret.scores[NGRAM_ORDER] =
            cumulative_score(ret.bp, ret.precisions, GreatestOrder(ret.totals))

\* order n (1-based) is reached by the loop: no order below it has total 0
ReachedExp(total, n) == \A m \in 1..(n - 1) : total[m] # 0

\* the number of orders up to n that are counted by the multiplier
ZeroesUpTo(correct, total, n) ==
    Cardinality({m \in 1..n : correct[m] = 0 /\ total[m] > 0})

AdjustedTotal(a, n) == IF n > 2 THEN a.total[n] + a.smooth_value ELSE a.total[n]
AdjustedCorrect(a, n) == IF n > 2 THEN a.correct[n] + a.smooth_value ELSE a.correct[n]

\* order n is reached under add-k: no order below it has adjusted total 0
ReachedAddK(a, n) == \A m \in 1..(n - 1) : AdjustedTotal(a, m) # 0

\* C9 as stated: under 'add-k' the constant is added to correct and total of
\* the 3-gram and 4-gram orders unconditionally, and to no other order.
C9_AddKUnconditional ==
    (ComputeBleuDone /\ args.smooth_method = "add-k") =>
        \A n \in Orders :
            /\ ret.counts[n] = AdjustedCorrect(args, n)
            /\ ret.totals[n] = AdjustedTotal(args, n)

\* C9, amended: under 'add-k' the constant is added to correct and total of
\* each of the 3-gram and 4-gram orders that the loop reaches (no lower order
\* has, after its own adjustment, total 0), before that order's zero-total
\* check and precision; an order the loop does not reach keeps its counts;
\* the 1-gram and 2-gram counts and precisions are those of no smoothing.
C9_AddKReachedOrders ==
    (ComputeBleuDone /\ args.smooth_method = "add-k") =>
        /\ \A n \in Orders :
              IF ReachedAddK(args, n)
              THEN /\ ret.counts[n] = AdjustedCorrect(args, n)
                   /\ ret.totals[n] = AdjustedTotal(args, n)
                   /\ IF AdjustedTotal(args, n) = 0 \/ AdjustedCorrect(args, n) = 0
                      THEN QuotIsZero(ret.precisions[n])
                      ELSE QuotEq(ret.precisions[n],
                                  Quot(100 * AdjustedCorrect(args, n),
                                       AdjustedTotal(args, n)))
              ELSE /\ ret.counts[n] = args.correct[n]
                   /\ ret.totals[n] = args.total[n]
                   /\ QuotIsZero(ret.precisions[n])
        /\ \A n \in 1..2 :
              /\ ret.counts[n] = args.correct[n]
              /\ ret.totals[n] = args.total[n]
              /\ ret.precisions[n] =
                    compute_bleu(args.correct, args.total, args.sys_len,
                                 args.ref_len, "none", args.smooth_value,
                                 args.use_effective_order).precisions[n]

\* an empty 4-gram order is adjusted before its zero-total check
C9_Witness ==
    /\ ComputeBleuDone
    /\ args.smooth_method = "add-k"
    /\ args.smooth_value = 1
    /\ args.total[4] = 0
    /\ ret.totals[4] = 1
    /\ ret.counts[4] = 1
    /\ ret.precisions[4] = Quot(100, 1)
    /\ ret.totals[2] = args.total[2]

ScoreIsZero(score) ==
    \/ score.bp = BPZero
    \/ \E i \in DOMAIN score.logs : score.logs[i].value = LOG_FLOOR

C12_UnknownSmoothingIsRejected ==
    (fn = "compute_bleu" /\ args.smooth_method \notin SmoothMethods) =>
        pc # "done"

-----------------------------------------------------------------------------
(* Properties of corpus_bleu and sentence_bleu                             *)

\* the lines of the system stream and of every reference stream
SysLines == acc.fhs[1].items
RefLines == [r \in 1..(Len(acc.fhs) - 1) |-> acc.fhs[r + 1].items]

\* some stream has ended with fewer segments than another one has
Misaligned ==
    \E i, j \in DOMAIN acc.fhs :
        ~acc.fhs[i].open /\ Len(acc.fhs[i].items) < Len(acc.fhs[j].items)

ShortestStream == MinOfSet({Len(acc.fhs[i].items) : i \in DOMAIN acc.fhs})

\* C1: when a reference stream and the system stream differ in their segment
\* counts, corpus_bleu returns no BLEU: it ends with the EOFError, raised at
\* the first position one stream lacks, and a BLEU is returned only when
\* every stream has ended after the last scored position.
C1_MisalignedStreamsAreFatal ==
    (fn = "corpus_bleu" /\ pc # "idle") =>
        /\ Misaligned =>
              (pc = "raised" /\ exc = "EOFError" /\ ret = None
                  /\ pos = ShortestStream)
        /\ pc = "done" =>
              \A i \in DOMAIN acc.fhs :
                  ~acc.fhs[i].open /\ Len(acc.fhs[i].items) = pos
        /\ pc = "loop" => \A i \in DOMAIN acc.fhs : pos <= Len(acc.fhs[i].items)

\* a reference stream longer than the system stream, after a scored segment
C1_Witness ==
    /\ fn = "corpus_bleu"
    /\ pc = "raised"
    /\ args.sys_stream.type = "stream"
    /\ Len(SysLines) = 1
    /\ ~acc.fhs[1].open
    /\ \E i \in DOMAIN RefLines : Len(RefLines[i]) = 2
    /\ exc = "EOFError"
    /\ pos = 1

\* corpus_bleu on the one tuple of lines, as one value
bleu_of_tuple(lines, cfg) ==
    LET zero == [n \in 1..NGRAM_ORDER |-> 0]
        st == accumulate([sys_len |-> 0, ref_len |-> 0, correct |-> zero,
                          total |-> zero],
                         Preprocess(lines, cfg.lowercase, cfg.tokenize))
    IN  compute_bleu(st.correct, st.total, st.sys_len, st.ref_len,
                     cfg.smooth_method, cfg.smooth_value, cfg.use_effective_order)

\* C4: sentence_bleu(h, [r1..rk]) returns the BLEU that corpus_bleu returns
\* for the system corpus [h] and the k one-segment reference streams
\* [[r1], ..., [rk]] with smoothing 'floor' and use_effective_order.
C4_SentenceBleuIsOneSegmentCorpusBleu ==
    (fn = "sentence_bleu" /\ pc \in {"done", "raised"}) =>
        /\ pc = "done"
        /\ ret = bleu_of_tuple(
                     <<args.hypothesis.val>> \o
                         [i \in DOMAIN args.references.val |->
                             args.references.val[i].val],
                     SentenceConfig)

\* the tokens of a line as corpus_bleu counts them
Tok(line) == split(IF Cfg.lowercase THEN lower(line) ELSE line)

\* the n-grams of the hypothesis h matched by the references rs: an
\* occurrence counts while its n-gram has occurred no more often in h than
\* in the reference that has it most often
SegCorrect(h, rs, n) ==
    Cardinality({i \in 1..(Len(h) - n + 1) :
        LET w == SubSeq(h, i, i + n - 1)
        IN  Cardinality({j \in 1..i : SubSeq(h, j, j + n - 1) = w})
                <= MaxOfSet({CountIn(rs[r], w) : r \in DOMAIN rs})})

SegTotal(h, n) == Max(0, Len(h) - n + 1)

SegClosest(h, rs) ==
    LET lens == {Len(rs[r]) : r \in DOMAIN rs}
        mindiff == MinOfSet({Abs(Len(h) - l) : l \in lens})
    IN  MinOfSet({l \in lens : Abs(Len(h) - l) = mindiff})

RECURSIVE SumFn(_, _)
SumFn(f, n) == IF n = 0 THEN 0 ELSE f[n] + SumFn(f, n - 1)

HypAt(j) == Tok(SysLines[j])
RefsAt(j) == [r \in DOMAIN RefLines |-> Tok(RefLines[r][j])]

\* C7: after every processed tuple of aligned segments, and so when the
\* streams are exhausted and the statistics go to compute_bleu, sys_len is the
\* sum of the hypothesis token counts, ref_len the sum of the closest
\* reference lengths, total[n-1] the sum of the hypothesis n-gram counts and
\* correct[n-1] the sum of the hypothesis n-gram counts clipped by the merged
\* reference counts.
C7_StatisticsAreSegmentSums ==
    (fn = "corpus_bleu" /\ pc = "loop") =>
        /\ acc.sys_len = SumFn([j \in 1..pos |-> Len(HypAt(j))], pos)
        /\ acc.ref_len = SumFn([j \in 1..pos |-> SegClosest(HypAt(j), RefsAt(j))], pos)
        /\ \A n \in 1..NGRAM_ORDER :
              /\ acc.total[n] = SumFn([j \in 1..pos |-> SegTotal(HypAt(j), n)], pos)
              /\ acc.correct[n] =
                    SumFn([j \in 1..pos |-> SegCorrect(HypAt(j), RefsAt(j), n)], pos)

\* two aligned segments against two references are summed and about to be
\* finalised, some hypothesis n-gram being clipped
C7_Witness ==
    /\ fn = "corpus_bleu"
    /\ pc = "loop"
    /\ pos = 2
    /\ Len(SysLines) = 2
    /\ Len(RefLines) = 2
    /\ \A r \in DOMAIN RefLines : Len(RefLines[r]) = 2
    /\ acc.correct[1] > 0
    /\ acc.correct[1] < acc.total[1]
    /\ acc.total[4] > 0

\* corpus_bleu has scored a non-empty corpus against itself as its one
\* reference stream, every segment having at least NGRAM_ORDER tokens
SelfScored ==
    /\ fn = "corpus_bleu"
    /\ pc = "done"
    /\ Len(acc.fhs) = 2
    /\ pos >= 1
    /\ SysLines = RefLines[1]
    /\ \A j \in DOMAIN SysLines : Len(Tok(SysLines[j])) >= NGRAM_ORDER

\* C18: a non-empty corpus whose segments have at least 4 tokens, scored
\* against itself with tokenize 'none', smoothing 'floor' and smooth_value 0,
\* has correct[n] = total[n] > 0 at all four orders, every precision 100, the
\* brevity penalty 1.0 with sys_len = ref_len, and the headline score
\* 1.0 * exp(mean of four log(100)), that is 100.
C18_SelfScoreIsPerfect ==
    (SelfScored /\ args.cfg.tokenize = "none" /\ args.cfg.smooth_method = "floor"
        /\ args.cfg.smooth_value = 0) =>
        /\ ret.counts = ret.totals
        /\ \A n \in Orders :
              /\ ret.totals[n] > 0
              /\ QuotEq(ret.precisions[n], Quot(100, 1))
        /\ ret.sys_len = ret.ref_len
        /\ ret.bp = BPOne
        /\ ret.scores[NGRAM_ORDER].bp = BPOne
        /\ ret.scores[NGRAM_ORDER].div = NGRAM_ORDER
        /\ \A n \in Orders :
              /\ ret.scores[NGRAM_ORDER].logs[n].value = "log"
              /\ QuotEq(ret.scores[NGRAM_ORDER].logs[n].of, Quot(100, 1))

\* two segments of four tokens each, scored against themselves
C18_Witness ==
    /\ SelfScored
    /\ args.cfg.tokenize = "none"
    /\ args.cfg.smooth_method = "floor"
    /\ args.cfg.smooth_value = 0
    /\ pos = 2
    /\ ret.counts = <<8, 6, 4, 2>>
    /\ ret.totals = <<8, 6, 4, 2>>
    /\ ret.bp = BPOne

RECURSIVE StatsUpTo(_, _)
\* the statistics corpus_bleu accumulates over the first j tuples when only
\* the first k reference streams are given
StatsUpTo(k, j) ==
    IF j = 0
    THEN [sys_len |-> 0, ref_len |-> 0, correct |-> [n \in Orders |-> 0],
          total |-> [n \in Orders |-> 0]]
    ELSE accumulate(StatsUpTo(k, j - 1),
                    Preprocess(<<SysLines[j]>> \o [r \in 1..k |-> RefLines[r][j]],
                               Cfg.lowercase, Cfg.tokenize))

\* C19: for reference sets R1 and R2 of the same system corpus, R2 adding a
\* reference stream to R1, correct_R2[n] >= correct_R1[n] at every order
\* while total[n] and sys_len are the same. R1 is again a set of streams
\* corpus_bleu is called with, so that the statement chains to any number
\* of added streams.
C19_MoreReferencesNeverLowerCorrect ==
    (fn = "corpus_bleu" /\ pc = "loop" /\ pos >= 1 /\ Len(RefLines) >= 2) =>
        LET fewer == StatsUpTo(Len(RefLines) - 1, pos)
        IN  /\ \A n \in Orders : acc.correct[n] >= fewer.correct[n]
            /\ acc.total = fewer.total
            /\ acc.sys_len = fewer.sys_len

\* the second reference stream matches n-grams the first one does not
C19_Witness ==
    /\ fn = "corpus_bleu"
    /\ pc = "loop"
    /\ pos = 2
    /\ Len(RefLines) = 2
    /\ acc.correct[1] > StatsUpTo(1, pos).correct[1]
    /\ acc.correct[NGRAM_ORDER] > StatsUpTo(1, pos).correct[NGRAM_ORDER]
    /\ acc.total = StatsUpTo(1, pos).total

-----------------------------------------------------------------------------
(* Properties of chrF                                                      *)

\* C2: corpus_chrf on a hypothesis stream and a reference stream of
\* different segment counts is rejected: it returns no score.
C2_ChrfMisalignedIsRejected ==
    (fn = "corpus_chrf" /\ pc # "idle"
        /\ Len(args.hypotheses) # Len(args.references)) =>
        pc # "done"

\* C13: corpus_chrf and sentence_chrf called with order <= 0 or beta <= 0
\* return no CHRF.
C13_ChrfBadParametersAreRejected ==
    (fn \in {"corpus_chrf", "sentence_chrf"} /\ pc # "idle"
        /\ (args.order <= 0 \/ args.beta <= 0)) =>
        pc # "done"

AvgDone == fn = "_avg_precision_and_recall" /\ pc = "done"

\* the counts of order i (1-based) in a flat list of statistics
HypCount(statistics, i) == statistics[3 * i - 2]
RefCount(statistics, i) == statistics[3 * i - 1]
CommonCount(statistics, i) == statistics[3 * i]

\* the orders whose hypothesis count and reference count are both > 0
Qualifying(statistics, order) ==
    {i \in 1..order : HypCount(statistics, i) > 0 /\ RefCount(statistics, i) > 0}

RECURSIVE ProdOver(_, _)
\* the product of den[i] over the indices i of S
ProdOver(den, S) ==
    IF S = {} THEN 1
    ELSE LET i == CHOOSE x \in S : TRUE IN den[i] * ProdOver(den, S \ {i})

RECURSIVE SumOver(_, _, _)
\* the sum of num[i] / den[i] over the indices i of S, times ProdOver(den, S)
SumOver(num, den, S) ==
    IF S = {} THEN 0
    ELSE LET i == CHOOSE x \in S : TRUE
         IN  num[i] * ProdOver(den, S \ {i}) + den[i] * SumOver(num, den, S \ {i})

\* the quotient q is the arithmetic mean of num[i] / den[i] over S
IsMeanOver(q, num, den, S) ==
    /\ q.den # 0
    /\ q.num * ProdOver(den, S) * Cardinality(S) = SumOver(num, den, S) * q.den

\* C14: avg_precision is the arithmetic mean of common / hyp and avg_recall
\* that of common / ref over exactly the orders whose hypothesis count and
\* reference count are both > 0; when no order qualifies both are 0, and no
\* division by zero occurs.
C14_AveragesOverQualifyingOrders ==
    AvgDone =>
        LET st == args.statistics
            n == args.order
            Q == Qualifying(st, n)
            hyp == [i \in 1..n |-> HypCount(st, i)]
            ref == [i \in 1..n |-> RefCount(st, i)]
            common == [i \in 1..n |-> CommonCount(st, i)]
        IN  /\ ret.avg_precision.den # 0
            /\ ret.avg_recall.den # 0
            /\ Q = {} => (ret.avg_precision.num = 0 /\ ret.avg_recall.num = 0)
            /\ Q # {} =>
                  /\ IsMeanOver(ret.avg_precision, common, hyp, Q)
                  /\ IsMeanOver(ret.avg_recall, common, ref, Q)

\* of two orders one has no hypothesis n-gram: the averages are those of the
\* other order alone
C14_Witness ==
    /\ AvgDone
    /\ args.order = 2
    /\ args.statistics = <<2, 1, 1, 0, 1, 0>>
    /\ QuotEq(ret.avg_precision, Quot(1, 2))
    /\ QuotEq(ret.avg_recall, Quot(1, 1))

FBetaEnded == fn = "_chrf" /\ pc \in {"done", "raised"}

\* the sentence statistics and the averages of the example of C15
ExampleStatistics ==
    get_sentence_statistics(<<"a", "b", "c">>, <<"a", "b", "c", "d">>, 1, TRUE)
ExampleAverages == avg_precision_and_recall(ExampleStatistics, 1)

\* C15: the score of _chrf is (1 + beta^2) * P * R / (beta^2 * P + R), and 0
\* without any division when P + R = 0; for hyp = "abc", ref = "abcd",
\* order 1, whitespace removed and beta = 2, P = 3/3, R = 3/4 and the score
\* is 3.75 / 4.75.
C15_FBetaScore ==
    /\ ExampleStatistics = <<3, 4, 3>>
    /\ QuotEq(ExampleAverages.avg_precision, Quot(3, 3))
    /\ QuotEq(ExampleAverages.avg_recall, Quot(3, 4))
    /\ FBetaEnded =>
          LET P == args.avg_precision
              R == args.avg_recall
              b2 == args.beta * args.beta
              divisor == b2 * P.num * R.den + R.num * P.den
          IN  /\ (P.num = 0 /\ R.num = 0) =>
                    (pc = "done" /\ ret.score.num = 0 /\ ret.score.den # 0)
              /\ pc = "raised" =>
                    (exc = "ZeroDivisionError" /\ divisor = 0
                        /\ ~(P.num = 0 /\ R.num = 0))
              /\ (pc = "done" /\ ~(P.num = 0 /\ R.num = 0)) =>
                    /\ divisor # 0
                    /\ ret.score.den # 0
                    /\ ret.score.num * divisor
                          = ret.score.den * (1 + b2) * P.num * R.num
              /\ (pc = "done" /\ P = ExampleAverages.avg_precision
                      /\ QuotEq(R, ExampleAverages.avg_recall) /\ args.beta = 2) =>
                    QuotEq(ret.score, Quot(375, 475))

\* the example of C15 is scored
C15_Witness ==
    /\ fn = "_chrf"
    /\ pc = "done"
    /\ args.avg_precision = ExampleAverages.avg_precision
    /\ args.avg_recall = ExampleAverages.avg_recall
    /\ args.beta = 2
    /\ QuotEq(ret.score, Quot(375, 475))

ChrfEnded ==
    fn \in {"corpus_chrf", "sentence_chrf"} /\ pc \in {"done", "raised"}

\* the hypothesis and the reference segments of the call
ChrfHyps == IF fn = "corpus_chrf" THEN args.hypotheses ELSE <<args.hypothesis>>
ChrfRefs == IF fn = "corpus_chrf" THEN args.references ELSE <<args.reference>>

\* the statistics the score of the call is built from
ChrfStatistics ==
    IF fn = "corpus_chrf" THEN acc.corpus_statistics
    ELSE get_sentence_statistics(args.hypothesis, args.reference, args.order,
                                 args.remove_whitespace)

\* the characters of a segment that are counted
Counted(segment) ==
    IF args.remove_whitespace THEN delete_whitespace(segment) ELSE segment

\* the score lies in [0, 1], and per order common <= hyp and common <= ref
ChrfInRange ==
    /\ pc = "done"
    /\ ret.score.den > 0
    /\ 0 <= ret.score.num
    /\ ret.score.num <= ret.score.den
    /\ \A i \in 1..args.order :
          /\ CommonCount(ChrfStatistics, i) <= HypCount(ChrfStatistics, i)
          /\ CommonCount(ChrfStatistics, i) <= RefCount(ChrfStatistics, i)

\* every hypothesis segment is its reference segment
ChrfSameSegments ==
    /\ Len(ChrfHyps) = Len(ChrfRefs)
    /\ \A i \in DOMAIN ChrfHyps : ChrfHyps[i] = ChrfRefs[i]

\* C16 as stated: for order >= 1 and beta > 0 the score lies in [0, 1], per
\* order the common count exceeds neither the hypothesis nor the reference
\* count, and the score is exactly 1 when every hypothesis segment equals
\* its non-empty reference segment.
C16_ScoreOneOnNonEmptyEqualSegments ==
    (ChrfEnded /\ args.order >= 1 /\ args.beta > 0) =>
        /\ ChrfInRange
        /\ (ChrfSameSegments /\ Len(ChrfHyps) >= 1
                /\ \A i \in DOMAIN ChrfHyps : ChrfHyps[i] # <<>>)
              => ret.score.num = ret.score.den

\* C16, amended: the score is exactly 1 when every hypothesis segment equals
\* its reference segment and some segment has a counted character, that is
\* one left after the removal of whitespace when whitespace is removed.
C16_ScoreOneOnCountedEqualSegments ==
    (ChrfEnded /\ args.order >= 1 /\ args.beta > 0) =>
        /\ ChrfInRange
        /\ (ChrfSameSegments
                /\ \E i \in DOMAIN ChrfHyps : Counted(ChrfHyps[i]) # <<>>)
              => ret.score.num = ret.score.den

\* two equal streams of two segments, the first one blank, scored 1 at
\* order 2 with whitespace removed
C16_Witness ==
    /\ fn = "corpus_chrf"
    /\ pc = "done"
    /\ args.order = 2
    /\ args.beta = 2
    /\ args.remove_whitespace
    /\ args.hypotheses = <<(<<" ">>), <<"a", " ", "b", "a">>>>
    /\ args.references = args.hypotheses
    /\ acc.corpus_statistics = <<3, 3, 3, 2, 2, 2>>
    /\ ret.score.num = ret.score.den

-----------------------------------------------------------------------------
(* Properties of bleu_signature and chrf_signature                         *)

SignatureDone == fn \in {"bleu_signature", "chrf_signature"} /\ pc = "done"

\* an entry of a signature: whether it is active, its full key name, its
\* abbreviation and its value as it is printed
Entry(on, full, short, value) ==
    [on |-> on, full |-> full, short |-> short, value |-> value]

IsSet(v) == v.type # "NoneType"

\* the entries of the two signatures in the sorted order of their full key
\* names
BleuEntries ==
    <<Entry(TRUE, "case", "c", IF args.lc.val THEN "lc" ELSE "mixed"),
      Entry(IsSet(args.langpair), "lang", "l", args.langpair.val),
      Entry(TRUE, "numrefs", "#", ToString(args.numrefs.val)),
      Entry(IsSet(args.origlang), "origlang", "o", args.origlang.val),
      Entry(TRUE, "smooth", "s", args.smooth.val),
      Entry(IsSet(args.subset), "subset", "S", args.subset.val),
      Entry(IsSet(args.test_set), "test", "t", args.test_set.val),
      Entry(TRUE, "tok", "tok", args.tokenize.val),
      Entry(TRUE, "version", "v", "1.4.2")>>
ChrfEntries ==
    <<Entry(TRUE, "case", "c", IF args.lc.val THEN "lc" ELSE "mixed"),
      Entry(IsSet(args.langpair), "lang", "l", args.langpair.val),
      Entry(TRUE, "numchars", "n", ToString(args.chrf_order.val)),
      Entry(TRUE, "numrefs", "#", ToString(args.numrefs.val)),
      Entry(IsSet(args.origlang), "origlang", "o", args.origlang.val),
      Entry(TRUE, "space", "s", IF args.chrf_whitespace.val THEN "True" ELSE "False"),
      Entry(IsSet(args.subset), "subset", "S", args.subset.val),
      Entry(IsSet(args.test_set), "test", "t", args.test_set.val),
      Entry(TRUE, "version", "v", "1.4.2")>>

RECURSIVE Listing(_, _, _)
\* the active entries, in their order, as key.value joined by "+"
Listing(entries, short, first) ==
    IF entries = <<>> THEN ""
    ELSE LET e == Head(entries)
         IN  IF e.on
             THEN (IF first THEN "" ELSE "+")
                      \o (IF short THEN e.short ELSE e.full) \o "." \o e.value
                      \o Listing(Tail(entries), short, FALSE)
             ELSE Listing(Tail(entries), short, first)

\* C17: a signature lists exactly the active entries, sorted by their full
\* key names whether the keys are printed in full or abbreviated, the four
\* optional ones only when set; it is a function of the set of active
\* (key, value) pairs.
C17_SignatureIsSortedListing ==
    SignatureDone =>
        ret = Listing(IF fn = "bleu_signature" THEN BleuEntries ELSE ChrfEntries,
                      args.short.val, TRUE)

\* a short BLEU signature with the test set as its one optional entry: "t"
\* stands where "test" does, before "tok"
C17_Witness ==
    /\ fn = "bleu_signature"
    /\ pc = "done"
    /\ args.short.val
    /\ IsSet(args.test_set)
    /\ ~IsSet(args.langpair)
    /\ ~IsSet(args.origlang)
    /\ ~IsSet(args.subset)
    /\ ret = "c.mixed+#.1+s.exp+t.wmt17+tok.13a+v.1.4.2"

-----------------------------------------------------------------------------
(* Properties of repeated calls                                            *)

\* two scores are the same product bp * exp(mean of logarithms)
SameScore(a, b) ==
    /\ a.bp = b.bp
    /\ a.div = b.div
    /\ \A i \in DOMAIN a.logs :
          /\ a.logs[i].value = b.logs[i].value
          /\ QuotEq(a.logs[i].of, b.logs[i].of)

\* C20: two successive finalizations by compute_bleu from the same
\* sufficient-statistics lists, with the same lengths, smoothing method and
\* value, return equal scores, precisions and counts.
C20_RepeatedFinalizationIsEqual ==
    (fn = "compute_bleu" /\ pc = "again") =>
        /\ \A k \in Orders : SameScore(ret.scores[k], acc.scores[k])
        /\ \A n \in Orders : QuotEq(ret.precisions[n], acc.precisions[n])
        /\ ret.counts = acc.counts
        /\ ret.totals = acc.totals

-----------------------------------------------------------------------------
(* Properties of the statistics handed to compute_bleu                     *)

\* C22: compute_bleu leaves the correct and total lists it was given
\* unchanged under every smoothing method, 'add-k' with k # 0 included: the
\* counts and totals of the BLEU it returns, which are these lists, hold
\* what was accumulated.
C22_FinalizationLeavesStatistics ==
    ComputeBleuDone =>
        /\ ret.counts = args.correct
        /\ ret.totals = args.total

\* correct[n] and total[n] (n 1-based) as the loop of compute_bleu reads
\* them: after the add-k adjustment of that order
CorrectAt(a, n) ==
    IF a.smooth_method = "add-k" THEN AdjustedCorrect(a, n) ELSE a.correct[n]
TotalAt(a, n) ==
    IF a.smooth_method = "add-k" THEN AdjustedTotal(a, n) ELSE a.total[n]

\* the lowest order whose total is 0 when the loop reads it, NGRAM_ORDER + 1
\* when there is none
StopOrder(a) ==
    IF \A n \in Orders : TotalAt(a, n) # 0 THEN NGRAM_ORDER + 1
    ELSE CHOOSE n \in Orders :
            /\ TotalAt(a, n) = 0
            /\ \A m \in 1..(n - 1) : TotalAt(a, m) # 0

\* smooth_mteval when the loop of the call is left
MultiplierAtExit(a) ==
    precision_loop([correct |-> a.correct, total |-> a.total,
                    precisions |-> [x \in Orders |-> Quot(0, 1)],
                    smooth_mteval |-> 1, effective_order |-> NGRAM_ORDER],
                   0, a.smooth_method, a.smooth_value,
                   a.use_effective_order).smooth_mteval

\* C23: under every smoothing method compute_bleu stops at the lowest order
\* whose total, after the add-k adjustment of that order, is 0: the precision
\* of that order and of every higher order stays 0 whatever their counts, no
\* precision has a zero divisor, the multiplier of 'exp' has been doubled for
\* the zero-count orders below that order only, and every order below it
\* with correct > 0 has precision 100 * correct / total.
C23_StopsAtFirstEmptyOrder ==
    ComputeBleuDone =>
        LET stop == StopOrder(args)
        IN  /\ \A n \in Orders : ret.precisions[n].den # 0
            /\ \A n \in Orders : n >= stop => ret.precisions[n] = Quot(0, 1)
            /\ \A n \in Orders :
                  (n < stop /\ CorrectAt(args, n) > 0) =>
                      QuotEq(ret.precisions[n],
                             Quot(100 * CorrectAt(args, n), TotalAt(args, n)))
            /\ MultiplierAtExit(args) =
                  IF args.smooth_method = "exp"
                  THEN 2 ^ Cardinality({m \in 1..(stop - 1) : args.correct[m] = 0})
                  ELSE 1

\* under 'exp' the loop stops at the 2-gram order, above which there are
\* counts and an order without a match; the multiplier was doubled once
C23_Witness ==
    /\ ComputeBleuDone
    /\ args.smooth_method = "exp"
    /\ args.correct = <<0, 0, 0, 1>>
    /\ args.total = <<2, 0, 1, 2>>
    /\ StopOrder(args) = 2
    /\ MultiplierAtExit(args) = 2
    /\ ret.precisions = <<Quot(100, 4), Quot(0, 1), Quot(0, 1), Quot(0, 1)>>

-----------------------------------------------------------------------------
(* Properties of the accumulators of corpus_bleu                           *)

\* the four accumulators of a pass
Stats(a) ==
    [sys_len |-> a.sys_len, ref_len |-> a.ref_len,
     correct |-> a.correct, total |-> a.total]

ZeroStats ==
    [sys_len |-> 0, ref_len |-> 0,
     correct |-> [n \in Orders |-> 0], total |-> [n \in Orders |-> 0]]

\* no accumulator of a is greater than in b
StatsLeq(a, b) ==
    /\ a.sys_len <= b.sys_len
    /\ a.ref_len <= b.ref_len
    /\ \A n \in Orders : a.correct[n] <= b.correct[n] /\ a.total[n] <= b.total[n]

\* the tuple of lines the streams of a gave as their j-th
TupleAt(a, j) == [i \in DOMAIN a.fhs |-> a.fhs[i].items[j]]

\* a step of a corpus_bleu pass: entering sets the accumulators to zero; a
\* scored tuple is counted in pos and adds its own statistics once (its
\* tokens, its closest reference length, its n-grams and those of them the
\* references match), none of the accumulators getting smaller; the step
\* that raises leaves them alone
PassStep ==
    fn = "corpus_bleu" =>
        /\ (pc = "idle" /\ pc' = "loop") => (pos' = 0 /\ Stats(acc') = ZeroStats)
        /\ (pc = "loop" /\ pc' = "loop") =>
              /\ pos' = pos + 1
              /\ StatsLeq(Stats(acc), Stats(acc'))
              /\ LET h == Tok(TupleAt(acc', pos')[1])
                     rs == [r \in 1..(Len(acc'.fhs) - 1) |->
                               Tok(TupleAt(acc', pos')[r + 1])]
                 IN  /\ acc'.sys_len = acc.sys_len + Len(h)
                     /\ acc'.ref_len = acc.ref_len + SegClosest(h, rs)
                     /\ \A n \in Orders :
                           /\ acc'.total[n] = acc.total[n] + SegTotal(h, n)
                           /\ acc'.correct[n] = acc.correct[n] + SegCorrect(h, rs, n)
        /\ (pc = "loop" /\ pc' = "raised") => (pos' = pos /\ Stats(acc') = Stats(acc))

\* C24: during one pass of corpus_bleu the accumulators start at zero and are
\* updated exactly once per aligned tuple of segments, and sys_len, ref_len,
\* every correct[n] and every total[n] never decrease from one processed
\* tuple to the next.
C24_AccumulatorsGrowOncePerTuple == [][PassStep]_vars

\* two tuples have been added, the second one raising every accumulator that
\* its hypothesis of two tokens can raise
C24_Witness ==
    /\ fn = "corpus_bleu"
    /\ pc = "loop"
    /\ pos = 2
    /\ Len(Tok(SysLines[2])) = 2
    /\ Len(Tok(SysLines[1])) = 4
    /\ acc.sys_len = 6
    /\ acc.total = <<6, 4, 2, 1>>
    /\ acc.correct[2] = 4

\* C25: after any number of tuples processed by corpus_bleu the accumulators
\* satisfy 0 <= correct[n] <= total[n] at every order, total[n+1] <= total[n]
\* and total[1] = sys_len; so every unsmoothed precision
\* 100 * correct[n] / total[n] lies in 0..100.
C25_AccumulatorInvariant ==
    (fn = "corpus_bleu" /\ pc = "loop") =>
        /\ \A n \in Orders : 0 <= acc.correct[n] /\ acc.correct[n] <= acc.total[n]
        /\ \A n \in 1..(NGRAM_ORDER - 1) : acc.total[n + 1] <= acc.total[n]
        /\ acc.total[1] = acc.sys_len
        /\ \A n \in Orders :
              acc.total[n] # 0 =>
                  /\ 0 <= 100 * acc.correct[n]
                  /\ 100 * acc.correct[n] <= 100 * acc.total[n]

\* after two tuples some order has every n-gram matched, some order has
\* n-grams without a match, and the totals fall with the order
C25_Witness ==
    /\ fn = "corpus_bleu"
    /\ pc = "loop"
    /\ pos = 2
    /\ Len(RefLines) = 1
    /\ acc.total = <<8, 6, 4, 2>>
    /\ acc.correct[4] = 1
    /\ acc.correct[1] < acc.total[1]
    /\ acc.total[1] = acc.sys_len

-----------------------------------------------------------------------------
(* Properties of interleaved calls                                         *)

\* the frame call c starts from
StartOf(c) ==
    [fn |-> fn[c], args |-> args[c], pc |-> "idle", pos |-> 0,
     acc |-> None, ret |-> None, exc |-> None]

RECURSIVE Alone(_, _)
\* the frame of a call after k steps when it runs alone from the frame f
Alone(f, k) ==
    IF k = 0 THEN f
    ELSE LET before == Alone(f, k - 1)
         IN  CHOOSE g \in FrameNext(before) : TRUE

\* the steps call c has taken: the entry, a pass of the loop per scored
\* tuple, and the pass that ends the call
StepsOf(c) ==
    IF pc[c] = "idle" THEN 0
    ELSE IF pc[c] = "loop" THEN 1 + pos[c]
    ELSE 2 + pos[c]

\* C21: calls share no mutable state. However the steps of the calls are
\* interleaved, the accumulators and the position of a call are those it has
\* after as many steps when it runs alone, and it returns or raises what it
\* returns or raises alone.
C21_CallsDoNotInterfere ==
    \A c \in Calls :
        LET alone == Alone(StartOf(c), StepsOf(c))
        IN  /\ pc[c] = alone.pc
            /\ pos[c] = alone.pos
            /\ pc[c] # "idle" => acc[c] = alone.acc
            /\ pc[c] = "done" => ret[c] = alone.ret
            /\ exc[c] = alone.exc

\* corpus_bleu and corpus_chrf are both in the middle of their pass over the
\* same corpus, and then one of them has returned while the other one is
\* still in its loop
C21_Witness ==
    /\ fn = <<"corpus_bleu", "corpus_chrf">>
    /\ args[1].sys_stream.val = args[2].hypotheses
    /\ pc[1] = "done"
    /\ pc[2] = "loop"
    /\ pos[2] = 1
    /\ pos[1] = MaxSegs
    /\ ret[1].counts[1] > 0
    /\ acc[2].corpus_statistics[1] > 0

=============================================================================
